---- MODULE Spec2Model ----
(***************************************************************************)
(* A model of cryptobacktest: the Black-Scholes pricer (class Option), the *)
(* portfolio aggregator (classes Forward and Portfolio) and the rolling     *)
(* volatility estimator (class Volatility).                                 *)
(*                                                                          *)
(* Numbers.  The program computes in binary floating point.  The model      *)
(* computes in decimal fixed point: a number x is the integer x * ONE, and  *)
(* every arithmetic operation rounds its exact result to the nearest        *)
(* representable number, as a floating-point operation does, only at a      *)
(* coarser resolution (1/ONE).  So equalities that hold of the code only    *)
(* up to rounding hold of the model only up to rounding too.  math.exp,     *)
(* math.log, math.sqrt and scipy's norm.cdf are computed by series or       *)
(* iterations that are accurate to a few units of the last place.           *)
(***************************************************************************)
EXTENDS Integers, Sequences, FiniteSets, TLC

\* ------------------------------------------------------------ arithmetic

\* The fixed-point scale: the integer that represents 1.0.
ONE == 10^6

\* The square root of the scale: factors are split at it so that no partial
\* product leaves the 32-bit range of the checker's integers.
BASE == 10^3

Abs(x) == IF x < 0 THEN -x ELSE x

Sgn(x) == IF x < 0 THEN -1 ELSE IF x = 0 THEN 0 ELSE 1

Fx(n) == n * ONE

\* A decimal literal with six digits after the point: Dec(0, 50000) is 0.05.
Dec(units, micros) == units * ONE + micros

MulPos(a, b) ==
    LET aH == a \div BASE
        aL == a % BASE
        bH == b \div BASE
        bL == b % BASE
        mid == aH * bL + aL * bH
        low == (mid % BASE) * BASE + aL * bL
    IN  aH * bH + (mid \div BASE) + ((low + (ONE \div 2)) \div ONE)

\* x * y on floats: the product rounded to the nearest representable number.
Mul(a, b) == Sgn(a) * Sgn(b) * MulPos(Abs(a), Abs(b))

RECURSIVE DivDigits(_, _, _, _)
\* Long division: the next `digits` decimal digits of r / b (0 <= r < b),
\* appended to acc, the last one rounded.
DivDigits(r, b, digits, acc) ==
    IF digits = 0
    THEN IF 2 * r >= b THEN acc + 1 ELSE acc
    ELSE DivDigits((r * 10) % b, b, digits - 1, acc * 10 + ((r * 10) \div b))

RECURSIVE DivPos(_, _)
DivPos(a, b) ==
    IF b > 200000000
    THEN DivPos(a \div 10, b \div 10)
    ELSE DivDigits(a % b, b, 6, a \div b)

\* x / y on floats, for y # 0 (the callers raise ZeroDivisionError first).
Div(a, b) == Sgn(a) * Sgn(b) * DivPos(Abs(a), Abs(b))

RECURSIVE ExpSeries(_, _, _, _)
\* The Taylor series of exp at f, terms k.. (term is f^(k-1)/(k-1)!).
ExpSeries(f, k, term, acc) ==
    IF term = 0 \/ k > 16
    THEN acc
    ELSE ExpSeries(f, k + 1, Div(Mul(term, f), Fx(k)), acc + term)

RECURSIVE ExpScale(_, _)
\* y * e^n for an integer n.
ExpScale(y, n) ==
    IF n = 0 \/ y = 0 THEN y
    ELSE IF n > 0 THEN ExpScale(Mul(y, Dec(2, 718282)), n - 1)
    ELSE ExpScale(Mul(y, Dec(0, 367879)), n + 1)

\* math.exp: e^x = e^n * e^f with n the integer part of x and 0 <= f < 1.
Exp(x) ==
    LET n == x \div ONE
        f == x % ONE
    IN  ExpScale(ExpSeries(f, 1, ONE, 0), n)

RECURSIVE AtanhSeries(_, _, _, _, _)
\* z + z^3/3 + z^5/5 + ... (zk is z^k).
AtanhSeries(z2, k, zk, acc, fuel) ==
    IF zk = 0 \/ fuel = 0
    THEN acc
    ELSE AtanhSeries(z2, k + 2, Mul(zk, z2), acc + Div(zk, Fx(k)), fuel - 1)

RECURSIVE LnReduce(_, _)
\* ln x for x > 0: halve or double x into [1, 2), then 2 atanh((x-1)/(x+1)).
LnReduce(x, acc) ==
    IF x >= 2 * ONE THEN LnReduce(Div(x, Fx(2)), acc + Dec(0, 693147))
    ELSE IF x < ONE THEN LnReduce(x * 2, acc - Dec(0, 693147))
    ELSE LET z == Div(x - ONE, x + ONE)
         IN  acc + 2 * AtanhSeries(Mul(z, z), 1, z, 0, 12)

\* math.log for x > 0 (the callers raise ValueError for x <= 0 first).
Ln(x) == IF x <= 0 THEN 0 ELSE LnReduce(x, 0)

RECURSIVE Newton(_, _, _)
Newton(x, y, fuel) ==
    LET next == (y + Div(x, y)) \div 2
    IN  IF fuel = 0 \/ Abs(next - y) <= 1 THEN next ELSE Newton(x, next, fuel - 1)

\* math.sqrt for x >= 0 (the callers raise ValueError for x < 0 first).
Sqrt(x) == IF x <= 0 THEN 0 ELSE Newton(x, IF x > ONE THEN x ELSE ONE, 40)

\* ------------------------------------------------------------ class Option

\* Python's None, and a present optional argument.
None == <<>>

Some(v) == <<v>>

DAYS_IN_YEAR == 365

\* What a call does: it returns a number or raises an exception.
Return(v) == [kind |-> "return", val |-> v]

Raise(e) == [kind |-> "raise", exc |-> e]

\* OptionInit with the positivity test written < 0: a zero passes.
OptionInit_zero_ok(option_type, underlying_price, strike_price, interest_rate, dividend_yield, time_to_maturity, implied_volatility) ==
    IF option_type \notin {"Call", "Put"}
    THEN [ret |-> Raise("ValueError"), self |-> None]
    ELSE IF underlying_price < 0 \/ strike_price < 0
            \/ time_to_maturity < 0 \/ implied_volatility < 0
    THEN [ret |-> Raise("ValueError"), self |-> None]
    ELSE [ret |-> Return(0),
          self |-> [option_type |-> option_type,
                    underlying_price |-> underlying_price,
                    strike_price |-> strike_price,
                    interest_rate |-> interest_rate,
                    dividend_yield |-> dividend_yield,
                    time_to_maturity |-> time_to_maturity,
                    implied_volatility |-> implied_volatility]]

\* Option.__init__: the instrument, or the ValueError of lines 33 and 35.
OptionInit(option_type, underlying_price, strike_price, interest_rate, dividend_yield, time_to_maturity, implied_volatility) ==
    IF option_type \notin {"Call", "Put"}
    THEN [ret |-> Raise("ValueError"), self |-> None]
    ELSE IF underlying_price <= 0 \/ strike_price <= 0
            \/ time_to_maturity <= 0 \/ implied_volatility <= 0
    THEN [ret |-> Raise("ValueError"), self |-> None]
    ELSE [ret |-> Return(0),
          self |-> [option_type |-> option_type,
                    underlying_price |-> underlying_price,
                    strike_price |-> strike_price,
                    interest_rate |-> interest_rate,
                    dividend_yield |-> dividend_yield,
                    time_to_maturity |-> time_to_maturity,
                    implied_volatility |-> implied_volatility]]

\* Option.normal_pdf: exp(-d ** 2 / 2) / sqrt(2 * pi).
normal_pdf(d) == Div(Exp(Div(-Mul(d, d), Fx(2))), Sqrt(Mul(Fx(2), Dec(3, 141593))))

\* The polynomial of Abramowitz and Stegun 26.2.17 in t = 1 / (1 + p x),
\* by Horner's rule; 1 - pdf(x) * poly(t) is the normal CDF for x >= 0.
CdfPoly(t) ==
    Mul(t, Dec(0, 319382)
      + Mul(t, -Dec(0, 356564)
      + Mul(t, Dec(1, 781478)
      + Mul(t, -Dec(1, 821256)
      + Mul(t, Dec(1, 330274))))))

CdfUpper(x) ==
    ONE - Mul(normal_pdf(x), CdfPoly(Div(ONE, ONE + Mul(Dec(0, 231642), x))))

\* The CDF at d from its value at |d|.
CdfFold(d, upper) == IF d >= 0 THEN upper ELSE ONE - upper

\* Option.norm_dist: scipy's norm.cdf, the standard normal CDF.
norm_dist(d) == CdfFold(d, CdfUpper(Abs(d)))

\* D1 and D2 from the numerator and the denominator of D1.
D1D2Of(num, den) == [kind |-> "return", D1 |-> Div(num, den), D2 |-> Div(num, den) - den]

\* The exceptions of _calculate_d1_d2, in the order the expression is
\* evaluated: math.log raises ValueError for an argument <= 0, math.sqrt for
\* one < 0, and the division ZeroDivisionError.
D1D2Checked(ratio, half_var, den, T) ==
    IF ratio <= 0 THEN Raise("ValueError")
    ELSE IF T < 0 THEN Raise("ValueError")
    ELSE IF den = 0 THEN Raise("ZeroDivisionError")
    ELSE D1D2Of(Ln(ratio) + half_var, den)

\* calculate_d1_d2 without the 0.5 * sigma ** 2 * T term of d1.
calculate_d1_d2_no_drift(S, K, T, r, q, sigma) ==
    D1D2Checked(Div(Mul(S, Exp(Mul(-q, T))), Mul(K, Exp(Mul(-r, T)))),
                0, Mul(sigma, Sqrt(T)), T)

\* Option._calculate_d1_d2
calculate_d1_d2(S, K, T, r, q, sigma) ==
    D1D2Checked(Div(Mul(S, Exp(Mul(-q, T))), Mul(K, Exp(Mul(-r, T)))),
                Mul(Mul(Dec(0, 500000), Mul(sigma, sigma)), T),
                Mul(sigma, Sqrt(T)), T)

\* The six locals every pricing method starts with: T, S and sigma from the
\* argument when it is given, from the instrument otherwise.
Locals(self, underlying_price, time_to_maturity, implied_volatility) ==
    [T |-> IF time_to_maturity = None
           THEN Div(self.time_to_maturity, Fx(DAYS_IN_YEAR))
           ELSE Div(time_to_maturity[1], Fx(DAYS_IN_YEAR)),
     S |-> IF underlying_price = None THEN self.underlying_price
           ELSE underlying_price[1],
     K |-> self.strike_price,
     r |-> self.interest_rate,
     q |-> self.dividend_yield,
     sigma |-> IF implied_volatility = None THEN self.implied_volatility
               ELSE implied_volatility[1]]

D1D2(l) == calculate_d1_d2(l.S, l.K, l.T, l.r, l.q, l.sigma)

\* What a method call gives back: the instrument after it and its outcome.
Called(self, ret) == [self |-> self, ret |-> ret]

\* The return statements of black_scholes, from S e^(-qT) and K e^(-rT).
PriceOf(option_type, d, SeqT, KerT) ==
    IF d.kind = "raise" THEN d
    ELSE IF option_type = "Call"
    THEN Return(Mul(SeqT, norm_dist(d.D1)) - Mul(KerT, norm_dist(d.D2)))
    ELSE Return(Mul(KerT, norm_dist(-d.D2)) - Mul(SeqT, norm_dist(-d.D1)))

\* PriceOf with the Put branch using N(D2) and N(D1) as the Call does.
PriceOf_put_sign(option_type, d, SeqT, KerT) ==
    IF d.kind = "raise" THEN d
    ELSE IF option_type = "Call"
    THEN Return(Mul(SeqT, norm_dist(d.D1)) - Mul(KerT, norm_dist(d.D2)))
    ELSE Return(Mul(KerT, norm_dist(d.D2)) - Mul(SeqT, norm_dist(d.D1)))

BlackScholesOf(self, l) ==
    Called(self, PriceOf(self.option_type, D1D2(l), Mul(l.S, Exp(Mul(-l.q, l.T))),
                         Mul(l.K, Exp(Mul(-l.r, l.T)))))

\* black_scholes with the Put branch using N(D2) and N(D1) as the Call does.
black_scholes_put_sign(self, underlying_price, time_to_maturity, implied_volatility) ==
    LET l == Locals(self, underlying_price, time_to_maturity, implied_volatility)
    IN  Called(self, PriceOf_put_sign(self.option_type, D1D2(l),
                                      Mul(l.S, Exp(Mul(-l.q, l.T))),
                                      Mul(l.K, Exp(Mul(-l.r, l.T)))))

\* black_scholes keeping the implied_volatility it was passed in the instrument.
black_scholes_storing(self, underlying_price, time_to_maturity, implied_volatility) ==
    LET l == Locals(self, underlying_price, time_to_maturity, implied_volatility)
    IN  Called([self EXCEPT !.implied_volatility = l.sigma], BlackScholesOf(self, l).ret)

\* Option.black_scholes: the price.
black_scholes(self, underlying_price, time_to_maturity, implied_volatility) ==
    BlackScholesOf(self, Locals(self, underlying_price, time_to_maturity,
                                implied_volatility))

\* The return statements of delta, from e^(-qT).
DeltaOf(option_type, d, eqT) ==
    IF d.kind = "raise" THEN d
    ELSE IF option_type = "Call"
    THEN Return(Mul(eqT, norm_dist(d.D1)))
    ELSE Return(Mul(eqT, norm_dist(d.D1) - ONE))

OptionDeltaOf(self, l) ==
    Called(self, DeltaOf(self.option_type, D1D2(l), Exp(Mul(-l.q, l.T))))

\* Option.delta
delta(self, underlying_price, time_to_maturity, implied_volatility) ==
    OptionDeltaOf(self, Locals(self, underlying_price, time_to_maturity,
                               implied_volatility))

\* The return statement of vega.
VegaOf(l, d) ==
    IF d.kind = "raise" THEN d
    ELSE Return(Mul(Mul(Mul(Mul(l.S, Exp(Mul(-l.q, l.T))), normal_pdf(d.D1)),
                        Sqrt(l.T)),
                    Dec(0, 10000)))

\* Option.vega
vega(self, underlying_price, time_to_maturity, implied_volatility) ==
    LET l == Locals(self, underlying_price, time_to_maturity, implied_volatility)
    IN  Called(self, VegaOf(l, D1D2(l)))

\* The return statement of gamma.
GammaOf(l, d) ==
    IF d.kind = "raise" THEN d
    ELSE Return(Div(Mul(normal_pdf(d.D1), Exp(Mul(-l.q, l.T))),
                    Mul(Mul(l.S, l.sigma), Sqrt(l.T))))

\* Option.gamma
gamma(self, underlying_price, time_to_maturity, implied_volatility) ==
    LET l == Locals(self, underlying_price, time_to_maturity, implied_volatility)
    IN  Called(self, GammaOf(l, D1D2(l)))

\* -S n(D1) sigma e^(-qT) / (2 sqrt(T)), the first term of both thetas.
ThetaDecay(l, d, eqT) ==
    Div(Mul(Mul(Mul(-l.S, normal_pdf(d.D1)), l.sigma), eqT), Mul(Fx(2), Sqrt(l.T)))

\* The return statements of theta, from e^(-qT) and e^(-rT).
ThetaOf(option_type, l, d, eqT, erT) ==
    IF d.kind = "raise" THEN d
    ELSE IF option_type = "Call"
    THEN Return(Div(ThetaDecay(l, d, eqT)
                    + Mul(Mul(Mul(l.q, l.S), norm_dist(d.D1)), eqT)
                    - Mul(Mul(Mul(l.r, l.K), erT), norm_dist(d.D2)),
                    Fx(DAYS_IN_YEAR)))
    ELSE Return(Div(ThetaDecay(l, d, eqT)
                    - Mul(Mul(Mul(l.q, l.S), norm_dist(-d.D1)), eqT)
                    + Mul(Mul(Mul(l.r, l.K), erT), norm_dist(-d.D2)),
                    Fx(DAYS_IN_YEAR)))

\* Option.theta
theta(self, underlying_price, time_to_maturity, implied_volatility) ==
    LET l == Locals(self, underlying_price, time_to_maturity, implied_volatility)
    IN  Called(self, ThetaOf(self.option_type, l, D1D2(l), Exp(Mul(-l.q, l.T)),
                             Exp(Mul(-l.r, l.T))))

Methods == {"black_scholes", "delta", "gamma", "vega", "theta"}

\* option.<method>(underlying_price, time_to_maturity, implied_volatility)
Invoke(method, self, up, ttm, iv) ==
    CASE method = "black_scholes" -> black_scholes(self, up, ttm, iv)
      [] method = "delta" -> delta(self, up, ttm, iv)
      [] method = "gamma" -> gamma(self, up, ttm, iv)
      [] method = "vega" -> vega(self, up, ttm, iv)
      [] method = "theta" -> theta(self, up, ttm, iv)

\* ------------------------------------------------------------ class Forward

\* Forward.__init__
ForwardInit(underlying_price) == [underlying_price |-> underlying_price]

\* ------------------------------------------------------------ class Portfolio

\* x * n for an integer literal n of the source (10000): exact.
Times(x, n) == x * n

\* Portfolio.__init__
PortfolioInit(portfolio_value) ==
    [portfolio_value |-> portfolio_value, options |-> <<>>, forwards |-> <<>>]

\* add_option putting the new entry in front of the list.
add_option_front(self, opt, quantity, contract_size) ==
    [self EXCEPT !.options =
        <<[option |-> opt, quantity |-> quantity, contract_size |-> contract_size]>>
            \o @]

\* Portfolio.add_option
add_option(self, opt, quantity, contract_size) ==
    [self EXCEPT !.options =
        Append(@, [option |-> opt, quantity |-> quantity,
                   contract_size |-> contract_size])]

\* Portfolio.add_forward
add_forward(self, forward, quantity, contract_size) ==
    [self EXCEPT !.forwards =
        Append(@, [forward |-> forward, quantity |-> quantity,
                   contract_size |-> contract_size])]

\* option.<method>() * quantity * contract_size, from the method's value.
EntryScale_unsigned(unit, entry) ==
    Mul(Mul(unit, Abs(entry.quantity)), entry.contract_size)

\* option.<method>() * quantity * contract_size, from the method's value.
EntryScale(unit, entry) == Mul(Mul(unit, entry.quantity), entry.contract_size)

\* The term of delta's loop over self.forwards, without contract_size.
ForwardTerm_no_size(self, entry) ==
    Div(Mul(entry.quantity, entry.forward.underlying_price), self.portfolio_value)

\* The term of delta's loop over self.forwards, for portfolio_value # 0.
ForwardTerm(self, entry) ==
    Div(Mul(Mul(entry.quantity, entry.contract_size), entry.forward.underlying_price),
        self.portfolio_value)

\* The term of each loop over self.options, from the value of the option's
\* method, for portfolio_value # 0.
DeltaTerm(self, entry, unit) ==
    Div(Mul(EntryScale(unit, entry), entry.option.underlying_price),
        self.portfolio_value)

GammaTerm(self, entry, unit) ==
    Div(Div(Mul(EntryScale(unit, entry),
                Mul(entry.option.underlying_price, entry.option.underlying_price)),
            Fx(100)),
        self.portfolio_value)

BasisPointTerm(self, entry, unit) ==
    Div(Times(EntryScale(unit, entry), 10000), self.portfolio_value)

RECURSIVE PremiumLoop(_, _, _)
RECURSIVE PremiumStep(_, _, _, _)
\* for entry in self.options: total_value += ...   (entries i.. of the list)
PremiumLoop(self, i, total) ==
    IF i > Len(self.options) THEN Return(total)
    ELSE PremiumStep(self, i, total,
                     black_scholes(self.options[i].option, None, None, None).ret)

PremiumStep(self, i, total, unit) ==
    IF unit.kind = "raise" THEN unit
    ELSE PremiumLoop(self, i + 1, total + EntryScale(unit.val, self.options[i]))

RECURSIVE DeltaLoop(_, _, _)
RECURSIVE DeltaStep(_, _, _, _)
\* for entry in self.options: total_delta += ...; a zero portfolio_value
\* raises ZeroDivisionError at the first division.
DeltaLoop(self, i, total) ==
    IF i > Len(self.options) THEN Return(total)
    ELSE DeltaStep(self, i, total, delta(self.options[i].option, None, None, None).ret)

DeltaStep(self, i, total, unit) ==
    IF unit.kind = "raise" THEN unit
    ELSE IF self.portfolio_value = 0 THEN Raise("ZeroDivisionError")
    ELSE DeltaLoop(self, i + 1, total + DeltaTerm(self, self.options[i], unit.val))

RECURSIVE ForwardLoop(_, _, _)
\* for entry in self.forwards: total_delta += ...
ForwardLoop(self, i, total) ==
    IF i > Len(self.forwards) THEN Return(total)
    ELSE IF self.portfolio_value = 0 THEN Raise("ZeroDivisionError")
    ELSE ForwardLoop(self, i + 1, total + ForwardTerm(self, self.forwards[i]))

RECURSIVE GammaLoop(_, _, _)
RECURSIVE GammaStep(_, _, _, _)
GammaLoop(self, i, total) ==
    IF i > Len(self.options) THEN Return(total)
    ELSE GammaStep(self, i, total, gamma(self.options[i].option, None, None, None).ret)

GammaStep(self, i, total, unit) ==
    IF unit.kind = "raise" THEN unit
    ELSE IF self.portfolio_value = 0 THEN Raise("ZeroDivisionError")
    ELSE GammaLoop(self, i + 1, total + GammaTerm(self, self.options[i], unit.val))

RECURSIVE VegaLoop(_, _, _)
RECURSIVE VegaStep(_, _, _, _)
VegaLoop(self, i, total) ==
    IF i > Len(self.options) THEN Return(total)
    ELSE VegaStep(self, i, total, vega(self.options[i].option, None, None, None).ret)

VegaStep(self, i, total, unit) ==
    IF unit.kind = "raise" THEN unit
    ELSE IF self.portfolio_value = 0 THEN Raise("ZeroDivisionError")
    ELSE VegaLoop(self, i + 1, total + BasisPointTerm(self, self.options[i], unit.val))

RECURSIVE ThetaLoop(_, _, _)
RECURSIVE ThetaStep(_, _, _, _)
ThetaLoop(self, i, total) ==
    IF i > Len(self.options) THEN Return(total)
    ELSE ThetaStep(self, i, total, theta(self.options[i].option, None, None, None).ret)

ThetaStep(self, i, total, unit) ==
    IF unit.kind = "raise" THEN unit
    ELSE IF self.portfolio_value = 0 THEN Raise("ZeroDivisionError")
    ELSE ThetaLoop(self, i + 1, total + BasisPointTerm(self, self.options[i], unit.val))

\* What a query gives back: the portfolio after it, its outcome, and the
\* number of Option method calls it made before returning or raising.
Queried(self, ret) ==
    [self |-> self, ret |-> ret,
     calls |-> IF ret.kind = "return" \/ self.options = <<>> THEN Len(self.options)
               ELSE 1]

\* Portfolio.total_premium_amount
total_premium_amount(self) == Queried(self, PremiumLoop(self, 1, 0))

\* The second loop of delta, entered when the first has not raised.
ThenForwards(self, opts) ==
    IF opts.kind = "raise" THEN opts ELSE ForwardLoop(self, 1, opts.val)

\* Portfolio.delta
portfolio_delta(self) == Queried(self, ThenForwards(self, DeltaLoop(self, 1, 0)))

\* Portfolio.gamma
portfolio_gamma(self) == Queried(self, GammaLoop(self, 1, 0))

\* Portfolio.vega
portfolio_vega(self) == Queried(self, VegaLoop(self, 1, 0))

\* Portfolio.theta
portfolio_theta(self) == Queried(self, ThetaLoop(self, 1, 0))

\* ------------------------------------------------------------ class Volatility

\* A pandas Series is a sequence of [date, value]: date a day number (day 0
\* is a 1 January; leap days are left out), value a number or NaN.
NaN == [defined |-> FALSE]

Num(x) == [defined |-> TRUE, val |-> x]

WINDOW == 30

TRADING_DAYS == 252

MonthLengths == <<31, 28, 31, 30, 31, 30, 31, 31, 30, 31, 30, 31>>

RECURSIVE MonthInYear(_, _)
MonthInYear(day_of_year, m) ==
    IF day_of_year < MonthLengths[m] THEN m
    ELSE MonthInYear(day_of_year - MonthLengths[m], m + 1)

\* The calendar month a day falls in, counted from month 1 of year 0.
MonthOf(day) == (day \div 365) * 12 + MonthInYear(day % 365, 1)

RECURSIVE InsertByDate(_, _)
InsertByDate(sorted, row) ==
    IF sorted = <<>> THEN <<row>>
    ELSE IF row.date < Head(sorted).date THEN <<row>> \o sorted
    ELSE <<Head(sorted)>> \o InsertByDate(Tail(sorted), row)

RECURSIVE sort_index(_)
\* Series.sort_index: ascending by date.
sort_index(series) ==
    IF series = <<>> THEN <<>>
    ELSE InsertByDate(sort_index(Tail(series)), Head(series))

\* Volatility.__init__
VolatilityInit(historical_prices) ==
    [historical_prices |-> sort_index(historical_prices)]

\* Series.pct_change: p[i] / p[i-1] - 1, NaN at the first position.
pct_change(series) ==
    [i \in DOMAIN series |->
        [date |-> series[i].date,
         value |-> IF i = 1 \/ ~series[i].value.defined \/ ~series[i - 1].value.defined
                   THEN NaN
                   ELSE Num(Div(series[i].value.val, series[i - 1].value.val) - ONE)]]

\* Series.dropna
dropna(series) == SelectSeq(series, LAMBDA row : row.value.defined)

RECURSIVE WindowSum(_, _, _)
\* The sum of the values at positions from..to.
WindowSum(series, from, to) ==
    IF from > to THEN 0
    ELSE series[from].value.val + WindowSum(series, from + 1, to)

RECURSIVE WindowSquares(_, _, _, _)
\* The sum of (value - mean) ** 2 over positions from..to.
WindowSquares(series, from, to, mean) ==
    IF from > to THEN 0
    ELSE Mul(series[from].value.val - mean, series[from].value.val - mean)
           + WindowSquares(series, from + 1, to, mean)

\* The sample standard deviation (ddof = 1) of positions i-window+1..i.
WindowStd(series, i, window) ==
    LET mean == Div(WindowSum(series, i - window + 1, i), Fx(window))
    IN  Sqrt(Div(WindowSquares(series, i - window + 1, i, mean), Fx(window - 1)))

\* Series.rolling(window).std(): NaN until the window is full.
rolling_std(series, window) ==
    [i \in DOMAIN series |->
        [date |-> series[i].date,
         value |-> IF i < window THEN NaN ELSE Num(WindowStd(series, i, window))]]

\* series * np.sqrt(252): NaN stays NaN.
annualize(series) ==
    [i \in DOMAIN series |->
        [date |-> series[i].date,
         value |-> IF series[i].value.defined
                   THEN Num(Mul(series[i].value.val, Sqrt(Fx(TRADING_DAYS))))
                   ELSE NaN]]

RECURSIVE LastIn(_, _, _)
\* The last value that is not NaN among the rows of the month, NaN if none.
LastIn(series, month, i) ==
    IF i = 0 THEN NaN
    ELSE IF MonthOf(series[i].date) = month /\ series[i].value.defined
    THEN series[i].value
    ELSE LastIn(series, month, i - 1)

\* resample('M').last() keeping only the months that have a value.
resample_last_dropping_nan(series) ==
    IF series = <<>> THEN <<>>
    ELSE LET first == MonthOf(series[1].date)
             last_month == MonthOf(series[Len(series)].date)
             all == [k \in 1..(last_month - first + 1) |->
                        [date |-> first + k - 1,
                         value |-> LastIn(series, first + k - 1, Len(series))]]
         IN  SelectSeq(all, LAMBDA row : row.value.defined)

\* Series.resample('M').last(): one row per calendar month from the first
\* row's month to the last row's, dated by the month, holding the month's
\* last value that is not NaN, or NaN; no row for an empty series.
resample_last(series) ==
    IF series = <<>> THEN <<>>
    ELSE LET first == MonthOf(series[1].date)
             last_month == MonthOf(series[Len(series)].date)
         IN  [k \in 1..(last_month - first + 1) |->
                 [date |-> first + k - 1,
                  value |-> LastIn(series, first + k - 1, Len(series))]]

\* Volatility.compute_monthly_30d_volatility, with its locals.
compute_monthly_30d_volatility(self) ==
    LET daily_returns == dropna(pct_change(self.historical_prices))
        rolling_volatility == annualize(rolling_std(daily_returns, WINDOW))
    IN  [daily_returns |-> daily_returns,
         rolling_volatility |-> rolling_volatility,
         monthly_volatility |-> resample_last(rolling_volatility)]

\* ------------------------------------------------------------ state

VARIABLES
    option,      \* the Option instance under test, None before construction
    ctor,        \* the arguments Option(...) was called with, None before
    ctor_ret,    \* what Option(...) did: returned or raised
    last,        \* the last pricing call on option: method, arguments, outcome
    overridden   \* some pricing call so far passed an override

VARIABLES
    portfolio,   \* the Portfolio instance: portfolio_value, options, forwards
    query,       \* the aggregate query made since the last append, if any
    appended,    \* history: every entry added so far, in the order of the calls
    built        \* history: the portfolio_value the Portfolio was built with

VARIABLES
    volatility,  \* the Volatility instance: historical_prices
    computed     \* what compute_monthly_30d_volatility last returned, and its locals

optionVars == <<option, ctor, ctor_ret, last, overridden>>

portfolioVars == <<portfolio, query, appended, built>>

volVars == <<volatility, computed>>

vars == <<optionVars, portfolioVars, volVars>>

\* ------------------------------------------------------------ inputs

OptionTypes == {"Call", "Put", "Straddle"}

UnderlyingPrices == {Fx(-1), 0, Fx(100)}

StrikePrices == {0, Fx(110)}

InterestRates == {-Dec(0, 10000), Dec(0, 50000)}

DividendYields == {-Dec(0, 10000), Dec(0, 20000)}

Maturities == {0, Fx(30)}

Volatilities == {0, Dec(0, 200000)}

\* The override arguments of a pricing call: none, each one alone with a
\* valid value, all three, and each of time_to_maturity and
\* implied_volatility alone with a zero and with a negative value.
Ov(up, ttm, iv) ==
    [underlying_price |-> up, time_to_maturity |-> ttm, implied_volatility |-> iv]

NoOverride == Ov(None, None, None)

Overrides ==
    {NoOverride,
     Ov(Some(Fx(120)), None, None),
     Ov(None, Some(Fx(60)), None),
     Ov(None, None, Some(Dec(0, 300000))),
     Ov(Some(Fx(120)), Some(Fx(60)), Some(Dec(0, 300000))),
     Ov(None, Some(0), None),
     Ov(None, Some(Fx(-5)), None),
     Ov(None, None, Some(0)),
     Ov(None, None, Some(-Dec(0, 200000)))}

\* The most entries (options and forwards together) a portfolio is given.
MaxEntries == 2

\* The instruments a portfolio holds.
BookCall ==
    OptionInit("Call", Fx(20), Fx(22), Dec(0, 50000), Dec(0, 20000), Fx(30),
               Dec(0, 200000)).self

BookPut ==
    OptionInit("Put", Fx(20), Fx(19), Dec(0, 50000), Dec(0, 20000), Fx(60),
               Dec(0, 300000)).self

Instruments == {BookCall, BookPut}

Forwards == {ForwardInit(Fx(20))}

\* Signed quantities: one short, one long and fractional.
Quantities == {Fx(-1), Dec(0, 500000)}

ContractSizes == {Fx(2)}

ForwardSizes == {Fx(10)}

PortfolioValues == {0, Fx(7)}

Metrics == {"total_premium_amount", "delta", "gamma", "vega", "theta"}

\* The most samples a price series has.
MaxSamples == 32

FirstDays == {0, 25}

DaySteps == {1, 3}

PriceShapes == {"flat", "zigzag", "ramp"}

\* The price of sample i of a series of the given shape.
PriceAt(shape, i) ==
    CASE shape = "flat" -> Fx(100)
      [] shape = "zigzag" -> Fx(100 + 3 * (i % 2))
      [] shape = "ramp" -> Fx(100 + i)

\* A series of n daily samples, given in descending date order.
PriceSeries(n, first, step, shape) ==
    [i \in 1..n |->
        [date |-> first + (n - i) * step, value |-> Num(PriceAt(shape, n + 1 - i))]]

\* ------------------------------------------------------------ pricer steps

\* No Option is under test.
OptionIdle ==
    /\ option = None
    /\ ctor = None
    /\ ctor_ret = None
    /\ last = None
    /\ overridden = FALSE

\* No Portfolio is under test.
PortfolioIdle ==
    /\ portfolio = None
    /\ query = None
    /\ appended = <<>>
    /\ built = None

\* No Volatility is under test.
VolatilityIdle ==
    /\ volatility = None
    /\ computed = None

OptionStart ==
    /\ PortfolioIdle
    /\ VolatilityIdle
    /\ option = None
    /\ ctor = None
    /\ ctor_ret = None
    /\ last = None
    /\ overridden = FALSE

\* option = Option(option_type, ..., implied_volatility)
Construct ==
    /\ ctor = None
    /\ \E ty \in OptionTypes, s \in UnderlyingPrices, k \in StrikePrices,
          r \in InterestRates, q \in DividendYields, t \in Maturities,
          v \in Volatilities :
          LET made == OptionInit(ty, s, k, r, q, t, v)
          IN  /\ ctor' = [option_type |-> ty, underlying_price |-> s,
                          strike_price |-> k, interest_rate |-> r,
                          dividend_yield |-> q, time_to_maturity |-> t,
                          implied_volatility |-> v]
              /\ ctor_ret' = made.ret
              /\ option' = made.self
    /\ UNCHANGED <<last, overridden>>
    /\ UNCHANGED <<portfolioVars, volVars>>

\* One pricing call on the constructed option.
Price ==
    /\ option # None
    /\ \E m \in Methods, ov \in Overrides :
          LET done == Invoke(m, option, ov.underlying_price, ov.time_to_maturity,
                             ov.implied_volatility)
          IN  /\ option' = done.self
              /\ last' = [method |-> m, args |-> ov, ret |-> done.ret]
              /\ overridden' = (overridden \/ ov # NoOverride)
    /\ UNCHANGED <<ctor, ctor_ret>>
    /\ UNCHANGED <<portfolioVars, volVars>>

OptionNext == Construct \/ Price

SpecOption == OptionStart /\ [][OptionNext]_vars

\* ------------------------------------------------------------ portfolio steps

\* portfolio = Portfolio(portfolio_value)
PortfolioStart ==
    /\ OptionIdle
    /\ VolatilityIdle
    /\ \E pv \in PortfolioValues : portfolio = PortfolioInit(pv) /\ built = pv
    /\ query = None
    /\ appended = <<>>

\* portfolio.add_option(option, quantity, contract_size)
AddOption ==
    /\ Len(appended) < MaxEntries
    /\ \E o \in Instruments, n \in Quantities, cs \in ContractSizes :
          /\ portfolio' = add_option(portfolio, o, n, cs)
          /\ appended' = Append(appended,
                [list |-> "options",
                 entry |-> [option |-> o, quantity |-> n, contract_size |-> cs]])
    /\ query' = None
    /\ UNCHANGED built
    /\ UNCHANGED <<optionVars, volVars>>

\* portfolio.add_forward(forward, quantity, contract_size)
AddForward ==
    /\ Len(appended) < MaxEntries
    /\ \E f \in Forwards, n \in Quantities, cs \in ForwardSizes :
          /\ portfolio' = add_forward(portfolio, f, n, cs)
          /\ appended' = Append(appended,
                [list |-> "forwards",
                 entry |-> [forward |-> f, quantity |-> n, contract_size |-> cs]])
    /\ query' = None
    /\ UNCHANGED built
    /\ UNCHANGED <<optionVars, volVars>>

\* portfolio.<metric>()
Ask(metric, self) ==
    CASE metric = "total_premium_amount" -> total_premium_amount(self)
      [] metric = "delta" -> portfolio_delta(self)
      [] metric = "gamma" -> portfolio_gamma(self)
      [] metric = "vega" -> portfolio_vega(self)
      [] metric = "theta" -> portfolio_theta(self)

\* One aggregate query.
Query ==
    /\ \E m \in Metrics :
          LET done == Ask(m, portfolio)
          IN  /\ portfolio' = done.self
              /\ query' = [metric |-> m, ret |-> done.ret, calls |-> done.calls]
    /\ UNCHANGED <<appended, built>>
    /\ UNCHANGED <<optionVars, volVars>>

PortfolioNext == AddOption \/ AddForward \/ Query

SpecPortfolio == PortfolioStart /\ [][PortfolioNext]_vars

\* ------------------------------------------------------------ volatility steps

\* volatility = Volatility(historical_prices)
VolatilityStart ==
    /\ OptionIdle
    /\ PortfolioIdle
    /\ \E n \in 0..MaxSamples, first \in FirstDays, step \in DaySteps,
          shape \in PriceShapes :
          volatility = VolatilityInit(PriceSeries(n, first, step, shape))
    /\ computed = None

\* volatility.compute_monthly_30d_volatility()
Compute ==
    /\ volatility # None
    /\ computed' = compute_monthly_30d_volatility(volatility)
    /\ UNCHANGED volatility
    /\ UNCHANGED <<optionVars, portfolioVars>>

VolatilityNext == Compute

SpecVolatility == VolatilityStart /\ [][VolatilityNext]_vars

\* ------------------------------------------------------------ claims: Option

\* The arguments of a constructor call violate the instrument invariant.
InvalidArgs(a) ==
    \/ a.option_type \notin {"Call", "Put"}
    \/ a.underlying_price <= 0
    \/ a.strike_price <= 0
    \/ a.time_to_maturity <= 0
    \/ a.implied_volatility <= 0

\* C1: Option(...) raises (the ValueError that stands for the spec's
\* InvalidInstrumentError) and yields no instrument when option_type is not
\* 'Call'/'Put' or one of underlying_price, strike_price, time_to_maturity,
\* implied_volatility is <= 0; for every other input, negative interest_rate
\* or dividend_yield included, it succeeds and stores the seven arguments.
C1_ConstructionChecked ==
    ctor # None =>
        IF InvalidArgs(ctor)
        THEN ctor_ret = Raise("ValueError") /\ option = None
        ELSE ctor_ret.kind = "return" /\ option = ctor

C1_Witness ==
    /\ ctor # None
    /\ ctor.option_type = "Call"
    /\ ctor.implied_volatility = 0
    /\ ctor.underlying_price > 0 /\ ctor.strike_price > 0 /\ ctor.time_to_maturity > 0
    /\ ctor_ret = Raise("ValueError")

\* The time to maturity (in days) and the volatility a pricing call works with.
EffDays(o, a) ==
    IF a.time_to_maturity = None THEN o.time_to_maturity ELSE a.time_to_maturity[1]

EffVol(o, a) ==
    IF a.implied_volatility = None THEN o.implied_volatility
    ELSE a.implied_volatility[1]

EffPrice(o, a) ==
    IF a.underlying_price = None THEN o.underlying_price ELSE a.underlying_price[1]

\* C2: a pricing call whose time_to_maturity override is <= 0 or whose
\* implied_volatility override is <= 0 fails (any exception is taken for the
\* spec's InvalidPricingInputError) instead of returning a number, and leaves
\* the instrument's stored parameters as they were.
C2_BadOverrideRaises ==
    (last # None /\ (EffDays(ctor, last.args) <= 0 \/ EffVol(ctor, last.args) <= 0))
        => (last.ret.kind = "raise" /\ option = ctor)

\* C4: pricing calls never change the instrument, whatever they override, so
\* a call without overrides returns what it returns on the instrument as built.
C4_OverridesDoNotMutate ==
    option # None =>
        /\ option = ctor
        /\ (last # None /\ last.args = NoOverride)
              => last.ret = Invoke(last.method, ctor, None, None, None).ret

C4_Witness ==
    /\ overridden
    /\ last # None
    /\ last.args = NoOverride
    /\ last.ret.kind = "return"

\* The instrument built with the same parameters and the other option type.
Twin(o) ==
    OptionInit(IF o.option_type = "Call" THEN "Put" ELSE "Call", o.underlying_price,
               o.strike_price, o.interest_rate, o.dividend_yield,
               o.time_to_maturity, o.implied_volatility).self

\* A black_scholes call has returned with S, T and sigma all positive.
ValidPriced ==
    /\ last # None
    /\ last.method = "black_scholes"
    /\ last.ret.kind = "return"
    /\ EffDays(ctor, last.args) > 0
    /\ EffVol(ctor, last.args) > 0
    /\ EffPrice(ctor, last.args) > 0

\* C(all) - P(ut) - (S e^(-qT) - K e^(-rT)) for the last call and the same
\* call on the twin instrument.
ParityGap ==
    LET a == last.args
        other == black_scholes(Twin(ctor), a.underlying_price, a.time_to_maturity,
                               a.implied_volatility).ret.val
        call == IF ctor.option_type = "Call" THEN last.ret.val ELSE other
        put == IF ctor.option_type = "Call" THEN other ELSE last.ret.val
        T == Div(EffDays(ctor, a), Fx(DAYS_IN_YEAR))
        fwd == Mul(EffPrice(ctor, a), Exp(Mul(-ctor.dividend_yield, T)))
                 - Mul(ctor.strike_price, Exp(Mul(-ctor.interest_rate, T)))
    IN  call - put - fwd

TestOption ==
    [option_type |-> "Call", underlying_price |-> Fx(100), strike_price |-> Fx(110),
     interest_rate |-> Dec(0, 50000), dividend_yield |-> Dec(0, 20000),
     time_to_maturity |-> Fx(30), implied_volatility |-> Dec(0, 200000)]

\* The last call was method m without overrides on the test's instrument.
TestCall(m) ==
    /\ ctor = TestOption
    /\ last # None
    /\ last.method = m
    /\ last.args = NoOverride

Near(x, y) == Abs(x - y) <= Dec(0, 1000)

\* C10 as written: on the test's instrument black_scholes() is about 0.0161
\* and delta() about 0.0205 (to within 0.001).
C10_AsWritten ==
    /\ TestCall("black_scholes")
         => (last.ret.kind = "return" /\ Near(last.ret.val, Dec(0, 16100)))
    /\ TestCall("delta")
         => (last.ret.kind = "return" /\ Near(last.ret.val, Dec(0, 20500)))

\* C10 amended: on the test's instrument black_scholes() is about 0.1331 and
\* delta() about 0.0558 (to within 0.001).
C10_TestValues ==
    /\ TestCall("black_scholes")
         => (last.ret.kind = "return" /\ Near(last.ret.val, Dec(0, 133100)))
    /\ TestCall("delta")
         => (last.ret.kind = "return" /\ Near(last.ret.val, Dec(0, 55800)))

C10_Witness == TestCall("delta") /\ last.ret.kind = "return"

\* ------------------------------------------------------------ claims: Portfolio

NormalizedMetrics == {"delta", "gamma", "vega", "theta"}

\* C3: with portfolio_value = 0 each of delta(), gamma(), vega(), theta()
\* raises (any exception is taken for the spec's DegeneratePortfolioError)
\* and returns no value, whatever entries the portfolio holds.
C3_ZeroValueRaises ==
    (portfolio # None /\ portfolio.portfolio_value = 0 /\ query # None
        /\ query.metric \in NormalizedMetrics)
        => query.ret.kind = "raise"

RECURSIVE EntriesOf(_, _)
\* The entries of a history that went to the given list, in order.
EntriesOf(history, list) ==
    IF history = <<>> THEN <<>>
    ELSE IF Head(history).list = list
    THEN <<Head(history).entry>> \o EntriesOf(Tail(history), list)
    ELSE EntriesOf(Tail(history), list)

\* The portfolio the history describes.
Recorded ==
    [portfolio_value |-> built, options |-> EntriesOf(appended, "options"),
     forwards |-> EntriesOf(appended, "forwards")]

\* C5: the portfolio holds exactly the entries added so far, each list in the
\* order of the add calls, with the portfolio_value it was built with (so
\* an add appends one entry and changes nothing else, and a query changes
\* nothing), and a query returns the sum over those entries.
C5_AppendOnlyAndCurrent ==
    portfolio # None =>
        /\ portfolio = Recorded
        /\ query # None =>
              /\ query.ret = Ask(query.metric, Recorded).ret
              /\ query.calls = Ask(query.metric, Recorded).calls

C5_Witness ==
    /\ query # None
    /\ query.ret.kind = "return"
    /\ Len(portfolio.options) = 1
    /\ Len(portfolio.forwards) = 1
    /\ appended[1].list = "forwards"

\* The portfolio holds two entries of one option with one contract size, no
\* forward, and a nonzero portfolio_value, and has been queried.
TwoAlike ==
    /\ portfolio # None
    /\ query # None
    /\ portfolio.portfolio_value # 0
    /\ portfolio.forwards = <<>>
    /\ Len(portfolio.options) = 2
    /\ portfolio.options[1].option = portfolio.options[2].option
    /\ portfolio.options[1].contract_size = portfolio.options[2].contract_size

\* metric() of the portfolio with the one entry (option, quantity,
\* contract_size) of the first entry held, at the given quantity.
Single(metric, quantity) ==
    Ask(metric,
        add_option(PortfolioInit(portfolio.portfolio_value),
                   portfolio.options[1].option, quantity,
                   portfolio.options[1].contract_size)).ret.val

QtyA == portfolio.options[1].quantity

QtyB == portfolio.options[2].quantity

Rounded(x, y) == Abs(x - y) <= Dec(0, 5000)

ForwardAdded ==
    /\ portfolio # None
    /\ portfolio.portfolio_value # 0
    /\ Len(appended') = Len(appended) + 1
    /\ appended'[Len(appended')].list = "forwards"

\* C7: add_forward leaves total_premium_amount(), gamma(), vega() and theta()
\* as they were and raises delta() by exactly quantity * contract_size *
\* forward.underlying_price / portfolio_value, with no further Option call.
C7_ForwardsMoveDeltaOnly ==
    [][ForwardAdded =>
          LET e == appended'[Len(appended')].entry
          IN  /\ \A m \in Metrics \ {"delta"} :
                    Ask(m, portfolio').ret = Ask(m, portfolio).ret
              /\ Ask("delta", portfolio').ret.val
                    = Ask("delta", portfolio).ret.val
                        + Div(Mul(Mul(e.quantity, e.contract_size),
                                  e.forward.underlying_price),
                              portfolio.portfolio_value)
              /\ Ask("delta", portfolio').calls = Ask("delta", portfolio).calls]_vars

C7_Witness ==
    /\ portfolio # None
    /\ portfolio.portfolio_value # 0
    /\ Len(portfolio.options) = 1
    /\ Len(portfolio.forwards) = 1
    /\ appended[2].list = "forwards"
    /\ query # None
    /\ query.metric = "delta"
    /\ query.ret.kind = "return"

\* ------------------------------------------------------------ claims: Volatility

\* The price series has fewer samples than the window, and the method ran.
ShortSeries == computed # None /\ Len(volatility.historical_prices) < WINDOW

AllInsufficient ==
    \A i \in DOMAIN computed.rolling_volatility :
        ~computed.rolling_volatility[i].value.defined

\* C8 as written: on a series with fewer samples than the window no rolling
\* value is defined and the monthly output is empty.
C8_AsWritten ==
    ShortSeries => (AllInsufficient /\ computed.monthly_volatility = <<>>)

\* C8 amended: on such a series no rolling value is defined, and the monthly
\* output holds one NaN row for every calendar month from the month of the
\* second sample to the month of the last; it is empty only for fewer than
\* two samples.
C8_ShortSeriesAllNaN ==
    ShortSeries =>
        LET prices == volatility.historical_prices
            monthly == computed.monthly_volatility
        IN  /\ AllInsufficient
            /\ Len(prices) < 2 => monthly = <<>>
            /\ Len(prices) >= 2 =>
                  /\ Len(monthly) = MonthOf(prices[Len(prices)].date)
                                      - MonthOf(prices[2].date) + 1
                  /\ \A k \in DOMAIN monthly :
                        /\ monthly[k].value = NaN
                        /\ monthly[k].date = MonthOf(prices[2].date) + k - 1

C8_Witness ==
    /\ ShortSeries
    /\ Len(volatility.historical_prices) = WINDOW - 1
    /\ Len(computed.monthly_volatility) = 3

====
